---- MODULE Spec2Model ----
(***************************************************************************)
(* Model of src/proto/packetizer.rs: the Packetizer session task, its     *)
(* two-variant PacketizerState, and the Enqueuer handle that feeds it via  *)
(* an unbounded mpsc queue.  ActivePacketizer (active_packetizer.rs) is a  *)
(* collaborator whose source is not part of this file; its enqueue and     *)
(* poll are modelled from the written specification of its interface.     *)
(***************************************************************************)
EXTENDS Integers, Sequences, FiniteSets, TLC

\* ------------------------------------------------------------------ bounds

\* Largest number of Enqueuer::enqueue calls in one execution.
MaxSends == 3

\* Largest number of Enqueuer handles (the original and its clones) alive at once.
MaxClones == 2

\* Width, in bits, of the model's correlation id (i32 in the program).
XidBits == 4

XidMin == -(2 ^ (XidBits - 1))

XidMax == (2 ^ (XidBits - 1)) - 1

\* ------------------------------------------------------------------ requests

\* The request shapes callers submit: the three watch-carrying variants with
\* each watch mode of interest, and one variant without a watch field.
Requests ==
    { [kind |-> "GetData",     path |-> "/a", watch |-> "Custom"],
      [kind |-> "GetChildren", path |-> "/b", watch |-> "Custom"],
      [kind |-> "Exists",      path |-> "/a", watch |-> "Custom"],
      [kind |-> "Exists",      path |-> "/b", watch |-> "None"],
      [kind |-> "GetData",     path |-> "/b", watch |-> "Global"],
      [kind |-> "Create",      path |-> "/a", watch |-> "NoField"] }

\* The variants matched by the or-pattern of poll_enqueue.
WatchKinds == {"GetData", "GetChildren", "Exists"}

\* Mutant: Exists classified as Data.
WatchTypeOfAllData(kind) ==
    CASE kind = "GetData"     -> "Data"
      [] kind = "GetChildren" -> "Child"
      [] kind = "Exists"      -> "Data"

WatchTypeOf(kind) ==
    CASE kind = "GetData"     -> "Data"
      [] kind = "GetChildren" -> "Child"
      [] kind = "Exists"      -> "Exist"

\* ------------------------------------------------------------------ xid

XidInit == 0

\* i32 addition on the reduced width, two's complement, as a build without
\* overflow checks (release) computes it.
WrapXid(x) == ((x - XidMin) % (2 ^ XidBits)) + XidMin

\* Mutant: the counter advances by two.
XidIncByTwo(x) == WrapXid(x + 2)

XidInc(x) == WrapXid(x + 1)

\* `self.xid += 1` overflows: a build with overflow checks (debug) panics
\* there, "attempt to add with overflow".
Overflows(x) == x = XidMax

\* ------------------------------------------------------------------ connection

\* reserved opcode of the close-session operation
CloseSessionOp == -11

\* Mutant: the length word counts the length field itself.
CloseSessionPacketLen12 == [type |-> "close", words |-> <<12, 0, CloseSessionOp>>]

\* The three big-endian i32 words Packetizer::poll writes to ap.outbox.
CloseSessionPacket == [type |-> "close", words |-> <<8, 0, CloseSessionOp>>]

\* ActivePacketizer::new: empty outbox, no request awaiting a reply, no
\* pending watcher.
NewAp == [outbox |-> <<>>, reply |-> <<>>, pending_watchers |-> {}]

\* HashMap::insert on pending_watchers: an entry under the same key is replaced.
PendingWatchersInsert(pw, key, path, sink, wtype) ==
    {e \in pw : e.xid # key}
        \cup {[xid |-> key, path |-> path, sink |-> sink, wtype |-> wtype]}

\* ActivePacketizer::enqueue(xid, item, tx): the request is framed into the
\* outbox and its response producer is kept until the reply arrives.
ApEnqueue(a, x, item, tx) ==
    [a EXCEPT !.outbox = Append(@, [type |-> "request", xid |-> x, req |-> item]),
              !.reply  = Append(@, [xid |-> x, tx |-> tx])]

\* ------------------------------------------------------------------ state

VARIABLES
    enqueuers,   \* number of Enqueuer handles alive (senders of the mpsc queue)
    landed,      \* history: every request whose send landed, in order
    sendFailed,  \* history: number of enqueue calls that returned a failed future
    results,     \* results[i]: what the caller of landed[i] observes
    queue,       \* rx: (request, response producer) pairs not yet popped
    rxParked,    \* the session task is registered for a wake-up on rx
    notified,    \* the scheduler has been told to poll the session task
    task,        \* "running", "done" (Ok(Ready)), "failed" (Err), "panicked"
    state,       \* PacketizerState variant: "Connected" or "Reconnecting"
    c,           \* the Reconnecting future: "none", "pending", "ready", "failed"
    ap,          \* the ActivePacketizer held (Connected) or to be yielded (Reconnecting)
    xid,         \* next xid to issue
    exiting,     \* Packetizer.exiting
    handed,      \* history: the calls of ap.enqueue, in order
    closeLog,    \* history: the close packets written, with state and Len(handed) then
    lastPoll,    \* history: what the parts of the last Packetizer::poll returned
    apParked     \* the session task is registered for a wake-up on the transport
                 \* of the live connection (its step ran and did not finish)

vars == <<enqueuers, landed, sendFailed, results, queue, rxParked, notified, task,
          state, c, ap, xid, exiting, handed, closeLog, lastPoll, apParked>>

\* Packetizer::new, and the Enqueuer it returns; tokio::spawn schedules the
\* first poll.
Init ==
    /\ enqueuers = 1
    /\ landed = <<>>
    /\ sendFailed = 0
    /\ results = <<>>
    /\ queue = <<>>
    /\ rxParked = FALSE
    /\ notified = TRUE
    /\ task = "running"
    /\ state = "Connected"
    /\ c = "none"
    /\ ap = NewAp
    /\ xid = XidInit
    /\ exiting = FALSE
    /\ handed = <<>>
    /\ closeLog = <<>>
    /\ lastPoll = [enq |-> "none", step |-> "none", ret |-> "none"]
    /\ apParked = FALSE

\* ------------------------------------------------------------------ Enqueuer

\* Mutant: a bounded queue that refuses a send when an item is already waiting.
UnboundedSendBounded(alive, q) == alive /\ Len(q) < 1

\* mpsc::UnboundedSender::unbounded_send succeeds exactly while the receiver
\* exists, whatever the queue holds.
UnboundedSend(alive, q) == alive

\* Mutant: the pair is queued twice, as if the producer could be cloned.
QueuePushTwice(q, item) == q \o <<item, item>>

\* Mutant: the new pair is put at the head of the queue.
QueuePushFront(q, item) == <<item>> \o q

QueuePush(q, item) == Append(q, item)

\* Enqueuer::enqueue(request), called through any of the live handles.
Enqueue(r) ==
    /\ enqueuers > 0
    /\ Len(landed) + sendFailed < MaxSends
    /\ IF UnboundedSend(task = "running", queue)
       THEN /\ landed' = Append(landed, r)
            /\ queue' = QueuePush(queue, [req |-> r, tx |-> Len(landed) + 1])
            /\ results' = Append(results, "pending")
            /\ notified' = (notified \/ rxParked)
            /\ rxParked' = FALSE
            /\ UNCHANGED sendFailed
       ELSE /\ sendFailed' = sendFailed + 1
            /\ UNCHANGED <<landed, queue, results, notified, rxParked>>
    /\ UNCHANGED <<enqueuers, task, state, c, ap, xid, exiting, handed, closeLog,
                   lastPoll, apParked>>

\* #[derive(Clone)] on Enqueuer: one more sender of the same queue.
CloneEnqueuer ==
    /\ enqueuers > 0
    /\ enqueuers < MaxClones
    /\ enqueuers' = enqueuers + 1
    /\ UNCHANGED <<landed, sendFailed, results, queue, rxParked, notified, task,
                   state, c, ap, xid, exiting, handed, closeLog, lastPoll, apParked>>

\* Dropping an Enqueuer; dropping the last one closes the queue and wakes a
\* receiver parked on it.
DropEnqueuer ==
    /\ enqueuers > 0
    /\ enqueuers' = enqueuers - 1
    /\ IF enqueuers' = 0 /\ task = "running"
       THEN /\ notified' = (notified \/ rxParked)
            /\ rxParked' = FALSE
       ELSE UNCHANGED <<notified, rxParked>>
    /\ UNCHANGED <<landed, sendFailed, results, queue, task, state, c, ap, xid,
                   exiting, handed, closeLog, lastPoll, apParked>>

\* ------------------------------------------------------------------ poll_enqueue

\* Mutant: an empty queue is reported as closed although senders exist.
RxPollEmptyIsClosed(q, closed) == IF q # <<>> THEN "Some" ELSE "None"

\* Mutant: a closed queue reports None even while items are waiting in it.
RxPollClosedFirst(q, closed) ==
    IF closed THEN "None" ELSE IF q # <<>> THEN "Some" ELSE "NotReady"

\* self.rx.poll(): the next pair, None once the queue is closed and empty,
\* NotReady (parking the task) otherwise.
RxPoll(q, closed) ==
    IF q # <<>> THEN "Some" ELSE IF closed THEN "None" ELSE "NotReady"

\* Mutant: the watch mode is left as the caller set it.
RewriteWatchKeep(req) == req

\* Mutant: every watch-carrying request is sent with the Global watch mode.
RewriteWatchGlobal(req) ==
    IF req.kind \in WatchKinds
    THEN [req EXCEPT !.watch = "Global"]
    ELSE req

\* mem::replace(watch, Watch::Global) for a Custom watch of a watch-carrying
\* variant; every other request is left alone.
RewriteWatch(req) ==
    IF req.kind \in WatchKinds /\ req.watch = "Custom"
    THEN [req EXCEPT !.watch = "Global"]
    ELSE req

\* Mutant: the entry is keyed by the xid after the increment.
WatcherKeyNext(x) == XidInc(x)

\* The key of the pending-watcher entry: self.xid as read before the increment.
WatcherKey(x) == x

\* The body of the loop for one popped (item, tx): the watch rewrite, the
\* pending-watcher insert, ap.enqueue(self.xid, item, tx) and self.xid += 1.
EnqueueItem(d, item, tx) ==
    LET custom == item.kind \in WatchKinds /\ item.watch = "Custom"
        ap1 == IF custom
               THEN [d.ap EXCEPT !.pending_watchers =
                        PendingWatchersInsert(@, WatcherKey(d.xid), item.path, tx,
                                              WatchTypeOf(item.kind))]
               ELSE d.ap
        sent == RewriteWatch(item)
    IN [d EXCEPT !.ap = ApEnqueue(ap1, d.xid, sent, tx),
                 !.handed = Append(@, [xid |-> d.xid, req |-> sent, tx |-> tx,
                                       watchers |-> {e \in ap1.pending_watchers :
                                                       e.xid = d.xid}]),
                 !.xid = XidInc(d.xid)]

\* Mutant: the queue is drained only while the session is not Connected.
DrainsInReconnecting(st) == st = "Reconnecting"

\* Mutant: the queue is drained whatever the session state.
DrainsInAny(st) == TRUE

\* `while let PacketizerState::Connected(ref mut ap) = self.state`.
DrainsIn(st) == st = "Connected"

RECURSIVE PollEnqueue(_, _, _)
\* Packetizer::poll_enqueue on d = [queue, xid, ap, handed, parked, checks,
\* res]: while Connected, pop and enqueue until rx.poll is not ready or the
\* queue is closed and empty.  With overflow checks (d.checks) the increment
\* of the largest xid panics, after ap.enqueue took the request.
PollEnqueue(st, closed, d) ==
    IF ~DrainsIn(st)
    THEN [d EXCEPT !.res = "NotReady"]
    ELSE CASE RxPoll(d.queue, closed) = "NotReady" ->
                [d EXCEPT !.res = "NotReady", !.parked = TRUE]
           [] RxPoll(d.queue, closed) = "None" ->
                [d EXCEPT !.res = "Err"]
           [] RxPoll(d.queue, closed) = "Some" ->
                LET d1 == EnqueueItem([d EXCEPT !.queue = Tail(@)],
                                      Head(d.queue).req, Head(d.queue).tx)
                IN IF d.checks /\ Overflows(d.xid)
                   THEN [d1 EXCEPT !.xid = d.xid, !.res = "Panic"]
                   ELSE PollEnqueue(st, closed, d1)

\* The results of poll_enqueue the build can produce: they differ only when
\* the drain increments the largest xid, which panics with overflow checks
\* and wraps without.
DrainOutcomes(st, closed, d) ==
    LET checked == PollEnqueue(st, closed, [d EXCEPT !.checks = TRUE])
    IN IF checked.res = "Panic"
       THEN {checked, PollEnqueue(st, closed, [d EXCEPT !.checks = FALSE])}
       ELSE {checked}

\* ------------------------------------------------------------------ ActivePacketizer::poll

\* The producers (tags) an ActivePacketizer holds for replies not yet received.
ReplyTags(a) == {a.reply[i].tx : i \in DOMAIN a.reply}

\* The outbox once everything up to the request framed under x was written
\* to the transport.
FlushedThrough(ob, x) ==
    IF \E i \in DOMAIN ob : ob[i].type = "request" /\ ob[i].xid = x
    THEN LET i == CHOOSE i \in DOMAIN ob : ob[i].type = "request" /\ ob[i].xid = x
         IN SubSeq(ob, i + 1, Len(ob))
    ELSE ob

\* One step of the connection, as its interface is specified: it may make no
\* progress; resolve the oldest outstanding request (its frame has then
\* left the outbox, and its pending watcher, if any, the table); finish
\* once exiting with every reply received and the outbox flushed; fail; or
\* lose the transport ("Lost": the session state is to become Reconnecting).
ApPoll(a, ex) ==
    {[ap |-> a, res |-> "NotReady", answered |-> {}],
     [ap |-> a, res |-> "Err", answered |-> {}],
     [ap |-> a, res |-> "Lost", answered |-> {}]}
    \cup (IF a.reply # <<>>
          THEN {[ap |-> [a EXCEPT !.reply = Tail(@),
                                  !.outbox = FlushedThrough(@, Head(a.reply).xid),
                                  !.pending_watchers =
                                      {e \in @ : e.xid # Head(a.reply).xid}],
                 res |-> "NotReady", answered |-> {Head(a.reply).tx}]}
          ELSE {})
    \cup (IF ex /\ a.reply = <<>>
          THEN {[ap |-> [a EXCEPT !.outbox = <<>>], res |-> "Ready",
                 answered |-> {}]}
          ELSE {})

\* What the session state becomes for an outcome of the connection's step.
\* A lost transport replaces Connected by Reconnecting, whose task will
\* yield a fresh connection; the old connection is dropped with the
\* producers it still holds.  polled lists the calls of the connection's
\* step made on the way, by the exiting flag each was given.
ConnectedOutcomes(o, ex) ==
    IF o.res = "Lost"
    THEN {[state |-> "Reconnecting", c |-> "pending", ap |-> NewAp,
           res |-> "NotReady", answered |-> o.answered, dropped |-> ReplyTags(o.ap),
           polled |-> <<ex>>]}
    ELSE {[state |-> "Connected", c |-> "none", ap |-> o.ap,
           res |-> o.res, answered |-> o.answered, dropped |-> {},
           polled |-> <<ex>>]}

\* ------------------------------------------------------------------ PacketizerState::poll

\* Mutant: the new connection is installed and the poll returns NotReady;
\* its step is left to the next turn.
ReconnectedNextTurn(a, ex) ==
    {[state |-> "Connected", c |-> "none", ap |-> a,
      res |-> "NotReady", answered |-> {}, dropped |-> {}, polled |-> <<>>]}

\* "we are now connected!": self becomes Connected(ap) and self.poll is
\* called again, which is the new connection's step.
Reconnected(a, ex) == UNION {ConnectedOutcomes(o, ex) : o \in ApPoll(a, ex)}

\* PacketizerState::poll(exiting, ..): the outcomes of one call.
StatePoll(st, cc, a, ex) ==
    IF st = "Connected"
    THEN UNION {ConnectedOutcomes(o, ex) : o \in ApPoll(a, ex)}
    ELSE CASE cc = "pending" ->
                {[state |-> st, c |-> cc, ap |-> a,
                  res |-> "NotReady", answered |-> {}, dropped |-> {},
                  polled |-> <<>>]}
           [] cc = "failed" ->
                {[state |-> st, c |-> cc, ap |-> a,
                  res |-> "Err", answered |-> {}, dropped |-> {},
                  polled |-> <<>>]}
           [] cc = "ready" -> Reconnected(a, ex)

\* ------------------------------------------------------------------ Packetizer::poll

\* Mutant: an error of the session state step is swallowed and the task
\* stays alive for another attempt.
PollReturnRetry(stepRes) == IF stepRes = "Err" THEN "NotReady" ELSE stepRes

\* Mutant: the task reports completion whenever the session state step did
\* not fail.
PollReturnDone(stepRes) == IF stepRes = "NotReady" THEN "Ready" ELSE stepRes

\* Packetizer::poll returns what self.state.poll returned.
PollReturn(stepRes) == stepRes

\* Mutant: the close packet is written on every poll that finds the queue
\* closed, exiting or not.
DrainWantedAlways(ex) == TRUE

\* `if !self.exiting`: the queue is drained only before exiting is set.
DrainWanted(ex) == ~ex

\* What the callers observe after producers were written (answered) or
\* dropped unwritten (dropped).
Resolve(res, answered, dropped) ==
    [i \in DOMAIN res |->
        IF res[i] # "pending" THEN res[i]
        ELSE IF i \in answered THEN "value"
        ELSE IF i \in dropped THEN "commfail"
        ELSE res[i]]

\* Mutant: the pairs still queued are leaked instead of dropped.
QueueTagsLeaked(q) == {}

\* The producers waiting in the queue.
QueueTags(q) == {q[i].tx : i \in DOMAIN q}

\* One scheduling turn of the session task.  The turn ends the task when
\* poll returns Ready or Err (tokio::spawn then drops the Packetizer: the
\* receiver, the pairs still queued and the connection with the producers
\* it holds) or when it panics (the unreachable! branch, the overflow check).
Poll ==
    /\ task = "running"
    /\ notified
    /\ \E pe \in (IF DrainWanted(exiting)
                  THEN DrainOutcomes(state, enqueuers = 0,
                                     [queue |-> queue, xid |-> xid, ap |-> ap,
                                      handed |-> handed, parked |-> rxParked,
                                      checks |-> TRUE, res |-> "Skipped"])
                  ELSE {[queue |-> queue, xid |-> xid, ap |-> ap,
                         handed |-> handed, parked |-> rxParked,
                         checks |-> TRUE, res |-> "Skipped"]}) :
       LET closing == pe.res = "Err"
           ex1 == exiting \/ closing
           fault == (closing /\ state # "Connected") \/ pe.res = "Panic"
           ap1 == IF closing /\ state = "Connected"
                  THEN [pe.ap EXCEPT !.outbox = Append(@, CloseSessionPacket)]
                  ELSE pe.ap
           log1 == IF closing /\ state = "Connected"
                   THEN Append(closeLog, [pkt |-> CloseSessionPacket, state |-> state,
                                          after |-> Len(pe.handed)])
                   ELSE closeLog
       IN /\ exiting' = ex1
          /\ xid' = pe.xid
          /\ handed' = pe.handed
          /\ closeLog' = log1
          /\ notified' = FALSE
          /\ IF fault
             THEN /\ task' = "panicked"
                  /\ queue' = <<>>
                  /\ ap' = NewAp
                  /\ rxParked' = FALSE
                  /\ results' = Resolve(results, {},
                                        QueueTags(pe.queue) \cup ReplyTags(pe.ap))
                  /\ lastPoll' = [enq |-> pe.res, step |-> "none", ret |-> "panic"]
                  /\ apParked' = FALSE
                  /\ UNCHANGED <<state, c>>
             ELSE \E o \in StatePoll(state, c, ap1, ex1) :
                    LET ret == PollReturn(o.res)
                        over == ret \in {"Ready", "Err"}
                    IN /\ state' = o.state
                       /\ c' = o.c
                       /\ lastPoll' = [enq |-> pe.res, step |-> o.res, ret |-> ret]
                       /\ apParked' = (~over /\ o.state = "Connected"
                                          /\ o.polled # <<>>)
                       /\ task' = CASE ret = "Ready" -> "done"
                                    [] ret = "Err" -> "failed"
                                    [] OTHER -> "running"
                       /\ queue' = IF over THEN <<>> ELSE pe.queue
                       /\ ap' = IF over THEN NewAp ELSE o.ap
                       /\ rxParked' = IF over THEN FALSE ELSE pe.parked
                       /\ results' =
                            Resolve(results, o.answered,
                                    o.dropped \cup
                                      (IF over
                                       THEN QueueTags(pe.queue) \cup ReplyTags(o.ap)
                                       ELSE {}))
    /\ UNCHANGED <<enqueuers, landed, sendFailed>>

\* ------------------------------------------------------------------ wake-ups

\* The transport of the live connection becomes readable or writable: the
\* task, which the connection's step registered with it, is woken.
ConnectionEvent ==
    /\ task = "running"
    /\ state = "Connected"
    /\ apParked
    /\ ~notified
    /\ notified' = TRUE
    /\ UNCHANGED <<enqueuers, landed, sendFailed, results, queue, rxParked, task,
                   state, c, ap, xid, exiting, handed, closeLog, lastPoll, apParked>>

\* The reconnection task finishes, with a connection or with an error, and
\* wakes the session task that polled it.
ReconnectTask(outcome) ==
    /\ task = "running"
    /\ state = "Reconnecting"
    /\ c = "pending"
    /\ c' = outcome
    /\ notified' = TRUE
    /\ UNCHANGED <<enqueuers, landed, sendFailed, results, queue, rxParked, task,
                   state, ap, xid, exiting, handed, closeLog, lastPoll, apParked>>

\* ------------------------------------------------------------------ specification

Next ==
    \/ \E r \in Requests : Enqueue(r)
    \/ CloneEnqueuer
    \/ DropEnqueuer
    \/ Poll
    \/ ConnectionEvent
    \/ \E outcome \in {"ready", "failed"} : ReconnectTask(outcome)

Spec == Init /\ [][Next]_vars

\* The session as it stands after XidMax - 1 earlier requests were handed
\* over and answered: the counter is two increments away from the overflow,
\* nothing is queued or outstanding and the task is parked on the queue and
\* on the transport.  The histories are those of the run from here on.
WrapInit ==
    /\ enqueuers = 1
    /\ landed = <<>>
    /\ sendFailed = 0
    /\ results = <<>>
    /\ queue = <<>>
    /\ rxParked = TRUE
    /\ notified = FALSE
    /\ task = "running"
    /\ state = "Connected"
    /\ c = "none"
    /\ ap = NewAp
    /\ xid = XidMax - 1
    /\ exiting = FALSE
    /\ handed = <<>>
    /\ closeLog = <<>>
    /\ lastPoll = [enq |-> "NotReady", step |-> "NotReady", ret |-> "NotReady"]
    /\ apParked = TRUE

WrapSpec == WrapInit /\ [][Next]_vars

\* ------------------------------------------------------------------ properties

\* C1: the k-th request popped by poll_enqueue (k counted from 0) is handed
\* to the connection's enqueue under correlation id k, and the counter is the
\* number of requests handed over so far: ids start at 0, grow by one per
\* popped request, none is skipped and none is given twice.
C1_XidsCountPops ==
    /\ \A k \in DOMAIN handed : handed[k].xid = k - 1
    /\ xid = Len(handed)

\* C1 witness: MaxSends requests were popped, sent while a clone existed.
C1_Witness ==
    /\ Len(handed) = MaxSends
    /\ handed[MaxSends].xid = MaxSends - 1
    /\ enqueuers = 2

\* C2: the requests handed to the connection are, in order, exactly the
\* first sends that landed in the shared queue (same producer, same variant
\* and path), and while the task runs the queue holds exactly the remaining
\* sends in landing order: nothing is reordered, dropped or handed twice.
C2_HandedIsPrefixOfLanded ==
    /\ Len(handed) <= Len(landed)
    /\ \A k \in DOMAIN handed :
          /\ handed[k].tx = k
          /\ handed[k].req.kind = landed[k].kind
          /\ handed[k].req.path = landed[k].path
    /\ task = "running" =>
          /\ Len(handed) + Len(queue) = Len(landed)
          /\ \A i \in DOMAIN queue :
                /\ queue[i].tx = Len(handed) + i
                /\ queue[i].req = landed[Len(handed) + i]

\* C2 witness: with two handles alive, one request has been handed over and
\* two different ones wait in the queue.
C2_Witness ==
    /\ enqueuers = 2
    /\ task = "running"
    /\ Len(handed) = 1
    /\ Len(queue) = 2
    /\ queue[1].req # queue[2].req

\* What the claims expect as classification of a watch-carrying variant.
ExpectedWatchType(kind) ==
    IF kind = "GetData" THEN "Data"
    ELSE IF kind = "GetChildren" THEN "Child"
    ELSE "Exist"

\* C3: a get-data, get-children or exists request sent with a Custom watch
\* is handed over with watch mode Global, and at the hand-over the
\* pending-watcher table holds exactly one entry under the id the request is
\* enqueued under: its path, its original sink and the classification of its
\* variant.
C3_CustomWatchRegistered ==
    \A k \in DOMAIN handed :
        (k \in DOMAIN landed /\ landed[k].kind \in WatchKinds
            /\ landed[k].watch = "Custom")
        => /\ handed[k].req.watch = "Global"
           /\ handed[k].watchers =
                {[xid |-> handed[k].xid, path |-> landed[k].path, sink |-> k,
                  wtype |-> ExpectedWatchType(landed[k].kind)]}

\* C3 witness: one Custom request of each watch-carrying variant was handed over.
C3_Witness ==
    /\ Len(handed) = 3
    /\ {landed[k].kind : k \in DOMAIN handed} = WatchKinds
    /\ \A k \in DOMAIN handed : landed[k].watch = "Custom"

\* C4: the close-session packet (words 8, 0, close-session opcode) is
\* written at most once; it has been written exactly when exiting is set,
\* was written while Connected, and from then on the queue is empty and no
\* request is handed to the connection.
C4_CloseWrittenOnce ==
    /\ Len(closeLog) <= 1
    /\ exiting <=> closeLog # <<>>
    /\ closeLog # <<>> =>
          /\ closeLog[1].pkt.words = <<8, 0, CloseSessionOp>>
          /\ closeLog[1].state = "Connected"
          /\ closeLog[1].after = Len(handed)
          /\ queue = <<>>
          /\ enqueuers = 0

\* C4 witness: exiting was set, after some requests, and the task still runs.
C4_Witness ==
    /\ exiting
    /\ task = "running"
    /\ Len(closeLog) = 1
    /\ Len(handed) = 2

\* C5: when every Enqueuer is dropped with M requests still queued, the
\* close packet is written only after all M (indeed after every request
\* that ever landed) were handed over, in queue order and under consecutive
\* ids; it is never written while a sent request is undrained.
C5_DrainBeforeClose ==
    closeLog # <<>> =>
        /\ closeLog[1].after = Len(landed)
        /\ Len(handed) = Len(landed)
        /\ \A k \in DOMAIN handed :
              /\ handed[k].tx = k
              /\ handed[k].req.kind = landed[k].kind
              /\ k > 1 => handed[k].xid = handed[k - 1].xid + 1

\* C5 witness: the poll that found the queue closed has just written the
\* close packet, behind the frames of the two requests it popped before.
C5_Witness ==
    /\ enqueuers = 0
    /\ lastPoll.enq = "Err"
    /\ closeLog # <<>>
    /\ closeLog[1].after = MaxSends
    /\ Len(ap.outbox) = 3
    /\ ap.outbox[1].type = "request" /\ ap.outbox[1].xid = MaxSends - 2
    /\ ap.outbox[2].type = "request" /\ ap.outbox[2].xid = MaxSends - 1
    /\ ap.outbox[3] = CloseSessionPacket

C8_EnqueueContract ==
    [][(Len(landed') + sendFailed' = Len(landed) + sendFailed + 1) =>
         IF task = "running"
         THEN /\ sendFailed' = sendFailed
              /\ Len(landed') = Len(landed) + 1
              /\ queue' = Append(queue, [req |-> landed'[Len(landed')],
                                         tx |-> Len(landed')])
              /\ results' = Append(results, "pending")
              /\ UNCHANGED <<task, state, c, ap, xid, exiting, handed, closeLog>>
         ELSE /\ sendFailed' = sendFailed + 1
              /\ UNCHANGED <<landed, results, queue, rxParked, notified, task, state,
                             c, ap, xid, exiting, handed, closeLog>>
      ]_vars

\* C8 witness: a send landed behind another while Reconnecting, and a later
\* call, made after the task had failed, was refused.
C8_Witness ==
    /\ sendFailed = 1
    /\ Len(landed) = 2
    /\ handed = <<>>
    /\ state = "Reconnecting"
    /\ task = "failed"

\* C9: the caller of an accepted request sees nothing yet, the value the
\* session wrote, or the communication failure; it sees nothing yet only
\* while the task runs and the producer is in the queue or held by the
\* connection, so once the task has ended every accepted request that was
\* queued or unanswered reports the communication failure.
C9_AcceptedRequestsResolve ==
    /\ Len(results) = Len(landed)
    /\ \A i \in DOMAIN results :
          /\ results[i] \in {"pending", "value", "commfail"}
          /\ results[i] = "pending" <=>
                /\ task = "running"
                /\ \/ \E j \in DOMAIN queue : queue[j].tx = i
                   \/ \E j \in DOMAIN ap.reply : ap.reply[j].tx = i
          /\ results[i] = "value" => i <= Len(handed)

\* C9 witness: the task failed with one request answered, one unanswered in
\* the connection and one still queued.
C9_Witness ==
    /\ task = "failed"
    /\ Len(handed) = 2
    /\ results = <<"value", "commfail", "commfail">>

\* C10: a poll whose session state step returns an error returns that error
\* and ends the task in the same turn, a failed reconnection leaving the
\* state Reconnecting; a failed task is never polled again: nothing more is
\* popped, handed over or retried.
C10_StepErrorIsFatal ==
    [][/\ (notified /\ ~notified' /\ lastPoll'.step = "Err") =>
              /\ lastPoll'.ret = "Err"
              /\ task' = "failed"
              /\ c = "failed" => (state' = "Reconnecting" /\ c' = "failed")
       /\ task = "failed" =>
              UNCHANGED <<task, state, c, xid, handed, queue, closeLog, lastPoll>>
      ]_vars

\* C10 witness: the reconnection task failed and took the session with it
\* while a request that had landed was never handed over.
C10_Witness ==
    /\ task = "failed"
    /\ state = "Reconnecting"
    /\ c = "failed"
    /\ lastPoll.step = "Err"
    /\ Len(landed) = 2
    /\ Len(handed) = 1

\* C11: a popped request whose watch mode is None or Global, or whose
\* variant has no watch field, is handed over exactly as it was sent and
\* adds nothing to the pending-watcher table, which therefore only ever
\* holds entries of Custom requests; after get-data Custom, exists without
\* watch and get-children Custom, sent in that order, the table holds the
\* keys 0 (Data) and 2 (Child) only, and the three requests are handed over
\* with watch Global, None and Global.
C11_OtherWatchesUntouched ==
    /\ \A k \in DOMAIN handed :
          (landed[k].kind \notin WatchKinds \/ landed[k].watch # "Custom")
          => /\ handed[k].req = landed[k]
             /\ handed[k].watchers = {}
    /\ \A e \in ap.pending_watchers :
          /\ e.xid + 1 \in DOMAIN handed
          /\ landed[e.xid + 1].kind \in WatchKinds
          /\ landed[e.xid + 1].watch = "Custom"
    /\ (/\ landed = << [kind |-> "GetData", path |-> "/a", watch |-> "Custom"],
                       [kind |-> "Exists", path |-> "/b", watch |-> "None"],
                       [kind |-> "GetChildren", path |-> "/b", watch |-> "Custom"] >>
        /\ Len(ap.reply) = 3)
       => /\ ap.pending_watchers =
                {[xid |-> 0, path |-> "/a", sink |-> 1, wtype |-> "Data"],
                 [xid |-> 2, path |-> "/b", sink |-> 3, wtype |-> "Child"]}
          /\ <<handed[1].req.watch, handed[2].req.watch, handed[3].req.watch>>
                = <<"Global", "None", "Global">>

\* C11 witness: the three requests of the scenario were handed over and none
\* is answered yet.
C11_Witness ==
    /\ Len(handed) = 3
    /\ Len(ap.reply) = 3
    /\ landed[1] = [kind |-> "GetData", path |-> "/a", watch |-> "Custom"]
    /\ landed[2] = [kind |-> "Exists", path |-> "/b", watch |-> "None"]
    /\ landed[3] = [kind |-> "GetChildren", path |-> "/b", watch |-> "Custom"]
    /\ Cardinality(ap.pending_watchers) = 2

\* C12: poll_enqueue reports the queue closed only in a poll that starts
\* and stays Connected until the close packet is appended: the unreachable!
\* branch of Packetizer::poll is never taken, so the task never panics, and
\* whenever the last drain reported the closed queue the packet was written
\* in the Connected state.
C12_QueueClosedOnlyWhileConnected ==
    /\ task # "panicked"
    /\ lastPoll.ret # "panic"
    /\ lastPoll.enq = "Err" =>
          /\ exiting
          /\ Len(closeLog) = 1
          /\ closeLog[1].state = "Connected"
    /\ (state = "Reconnecting" /\ ~exiting) => closeLog = <<>>

\* C12 witness: the task was polled while Reconnecting with the queue
\* already closed and empty (the drop of the last handle woke it), and the
\* drain did not report the closed queue.
C12_Witness ==
    /\ task = "running"
    /\ state = "Reconnecting"
    /\ c = "pending"
    /\ enqueuers = 0
    /\ queue = <<>>
    /\ ~notified
    /\ ~rxParked
    /\ ~exiting
    /\ lastPoll.enq = "NotReady"

\* C13: a poll that starts in the Reconnecting state pops nothing: it
\* leaves the counter, the exiting flag and the calls made to the
\* connection's enqueue as they were, writes no close packet and does not
\* report the queue closed, and the queue keeps its pairs as long as the
\* task lives, even when the queue is non-empty or closed; a request is
\* handed over only in a poll that starts Connected.
C13_ReconnectingPollPopsNothing ==
    [][/\ (notified /\ ~notified' /\ state = "Reconnecting") =>
              /\ xid' = xid
              /\ exiting' = exiting
              /\ handed' = handed
              /\ closeLog' = closeLog
              /\ lastPoll'.enq \in {"NotReady", "Skipped"}
              /\ lastPoll'.enq = "Skipped" <=> exiting
              /\ queue' = IF task' = "running" THEN queue ELSE <<>>
              /\ \A i \in DOMAIN ap'.outbox : ap'.outbox[i].type # "close"
       /\ handed' # handed =>
              /\ state = "Connected"
              /\ notified /\ ~notified'
      ]_vars

\* C13 witness: the task was polled while Reconnecting with two pairs
\* waiting in a queue that is already closed, and they are still there.
C13_Witness ==
    /\ task = "running"
    /\ state = "Reconnecting"
    /\ c = "pending"
    /\ ~notified
    /\ ~rxParked
    /\ enqueuers = 0
    /\ Len(queue) = 2
    /\ ~exiting
    /\ closeLog = <<>>
    /\ xid = Len(handed)

\* C14: a poll that finds the session Reconnecting with the reconnection
\* task complete installs the new connection and runs its step in the same
\* poll, under the unchanged exiting flag: afterwards the task is
\* registered with the new transport (or that step already ended the task,
\* with completion only if exiting, or lost the transport again); a poll
\* that finds the reconnection task pending leaves the state Reconnecting
\* and returns NotReady, no connection step having run.
C14_ReconnectedStepsInSameTurn ==
    [][(notified /\ ~notified' /\ state = "Reconnecting") =>
          /\ c = "ready" =>
                /\ exiting' = exiting
                /\ lastPoll'.step \in {"NotReady", "Ready", "Err"}
                /\ lastPoll'.step = "Ready" => exiting
                /\ \/ /\ state' = "Connected"
                      /\ c' = "none"
                      /\ apParked' <=> task' = "running"
                   \/ /\ state' = "Reconnecting"
                      /\ c' = "pending"
                      /\ ap' = NewAp
                      /\ ~apParked'
          /\ c = "pending" =>
                /\ state' = "Reconnecting"
                /\ c' = "pending"
                /\ lastPoll'.step = "NotReady"
                /\ lastPoll'.ret = "NotReady"
                /\ task' = "running"
                /\ ~apParked'
                /\ UNCHANGED <<ap, results, exiting>>
      ]_vars

\* C14 witness: the poll that installed the new connection has run its
\* step, which registered the task with the transport; the two pairs sent
\* during the reconnection are still queued, the queue not having been
\* polled in that turn.
C14_Witness ==
    /\ task = "running"
    /\ state = "Connected"
    /\ apParked
    /\ ~notified
    /\ ~rxParked
    /\ ~exiting
    /\ enqueuers = 1
    /\ Len(queue) = 2
    /\ handed = <<>>
    /\ lastPoll.step = "NotReady"

\* C15: every Packetizer::poll ends with one call of the session state
\* step, whether the drain suspended on the queue, was skipped because
\* exiting was set, or found the queue closed in this very turn (the step
\* then runs with exiting already true and may complete at once); the poll
\* returns what that step returned, so the task completes exactly when the
\* step of that turn reports completion.
C15_StepRunsEveryPoll ==
    /\ lastPoll.enq \in {"none", "NotReady", "Skipped", "Err"}
    /\ lastPoll.enq = "none" <=> lastPoll.step = "none"
    /\ lastPoll.enq # "none" => lastPoll.step \in {"NotReady", "Ready", "Err"}
    /\ lastPoll.ret = lastPoll.step
    /\ lastPoll.enq \in {"Skipped", "Err"} => exiting
    /\ lastPoll.step = "Ready" => exiting
    /\ task = "done" <=> lastPoll.step = "Ready"
    /\ task = "failed" <=> lastPoll.step = "Err"
    /\ task = "running" <=> lastPoll.step \in {"none", "NotReady"}

\* C15 witness: the poll that found the queue closed set exiting, and the
\* session state step of the same poll, seeing it, reported completion.
C15_Witness ==
    /\ task = "done"
    /\ lastPoll = [enq |-> "Err", step |-> "Ready", ret |-> "Ready"]
    /\ Len(handed) = 1
    /\ results = <<"value">>

\* The producers handed to the connection's enqueue so far.
HandedTags == {handed[k].tx : k \in DOMAIN handed}

\* C16: the producer of a request's response channel exists at most once:
\* it is in the queue, or held by the connection after the one call of its
\* enqueue that received it, or gone; no producer is handed over twice; and
\* once the caller has a result (the value, written only by the connection
\* that was handed the producer, or the failure) no producer of that
\* channel is left that could write another.
C16_OneProducerPerRequest ==
    /\ \A i, j \in DOMAIN queue : queue[i].tx = queue[j].tx => i = j
    /\ \A i, j \in DOMAIN ap.reply : ap.reply[i].tx = ap.reply[j].tx => i = j
    /\ \A i, j \in DOMAIN handed : handed[i].tx = handed[j].tx => i = j
    /\ QueueTags(queue) \cap HandedTags = {}
    /\ ReplyTags(ap) \subseteq HandedTags
    /\ QueueTags(queue) \cup HandedTags \subseteq DOMAIN landed
    /\ DOMAIN results = DOMAIN landed
    /\ \A i \in DOMAIN results :
          /\ results[i] # "pending" => i \notin QueueTags(queue) \cup ReplyTags(ap)
          /\ results[i] = "value" => i \in HandedTags

\* C16 witness: of three requests one was answered, one has its producer in
\* the connection and one still in the queue.
C16_Witness ==
    /\ results = <<"value", "pending", "pending">>
    /\ ReplyTags(ap) = {2}
    /\ QueueTags(queue) = {3}
    /\ HandedTags = {1, 2}

\* C17: the counter is an i32 that wraps: after the request enqueued under
\* the largest value the task keeps running with the counter at the
\* smallest value, under which the next request is enqueued; consecutive
\* requests get consecutive ids modulo 2^XidBits, and up to the wrap no id
\* is given twice.
C17_XidWraps ==
    /\ task # "panicked"
    /\ (handed # <<>> /\ handed[Len(handed)].xid = XidMax) => xid = XidMin
    /\ \A k \in DOMAIN handed :
          k < Len(handed) =>
             /\ handed[k + 1].xid = WrapXid(handed[k].xid + 1)
             /\ handed[k].xid = XidMax => handed[k + 1].xid = XidMin
    /\ \A i, j \in DOMAIN handed : handed[i].xid = handed[j].xid => i = j

\* What C17 claims, in the runs of a build without overflow checks.
C17_WrapsUnlessChecked ==
    task = "panicked" \/ C17_XidWraps

\* The counter has wrapped and a request was enqueued under the smallest id.
C17_WrappedRun ==
    /\ task = "running"
    /\ Len(handed) = 3
    /\ <<handed[1].xid, handed[2].xid, handed[3].xid>> = <<XidMax - 1, XidMax, XidMin>>
    /\ xid = XidMin + 1

C19_ExitingMeansDrainedAndClosed ==
    exiting =>
        /\ enqueuers = 0
        /\ queue = <<>>
        /\ Len(closeLog) = 1
        /\ Len(handed) = Len(landed)
        /\ xid = Len(landed)

\* C19 witness: exiting is set after MaxSends requests, all of which landed,
\* and the task is still running.
C19_Witness ==
    /\ exiting
    /\ task = "running"
    /\ sendFailed = 0
    /\ Len(landed) = MaxSends
    /\ xid = MaxSends

====
